---- MODULE Spec2Model ----
(***************************************************************************)
(* Model of the incremental calendar synchronisation engine:               *)
(*   WebhookHandler   (handleCalendarWebhook, processWebhookAsync,         *)
(*                     doProcessWebhook, fetchIncrementalChanges,          *)
(*                     scheduleFullSync)                                   *)
(*   DatabaseService  (getSyncToken, updateSyncToken,                      *)
(*                     updateCalendarConnection)                           *)
(*   AuthService      (getAuthenticatedClient, refreshUserToken)           *)
(*   WebhookHandler.performFullSync (the full-sync runner)                 *)
(*   MemoryCalendarSync (processCalendarChange, storeInMemoryVault,        *)
(*                     updateInMemoryVault, removeFromMemoryVault)         *)
(* Every action is one stretch of code between two awaits: Node runs such  *)
(* a stretch without interleaving, and any other handler may run at an     *)
(* await.                                                                  *)
(***************************************************************************)
EXTENDS Integers, Sequences, FiniteSets, TLC

\* ---------------------------------------------------------------- bounds
\* number of webhook deliveries in one behaviour
MaxTriggers == 2
\* largest number of items in one provider response
MaxChanges == 1
\* number of fresh cursors the provider hands out in one behaviour
MaxTok == 1
\* largest number of items in one provider response when one handler runs alone
MaxBatch == 2
\* number of memories the vault accepts for one (user, event id)
MaxMem == 2
\* largest number of calendars calendarList.list returns
MaxCals == 2
\* largest number of pages the provider cuts one calendar into
MaxPages == 2

\* ------------------------------------------------------ program constants
maxRetries == 3

\* ------------------------------------------------------------- the inputs
\* handlers that can be between two awaits at the same time
Slots == {"h1", "h2"}

NoUser == ""
\* req.params.userId is any path segment: it may contain the separator of the key
Users == {"u1", "u2", "u1_c1"}
\* headers['x-goog-channel-id'] is whatever the request carries
Channels == {"c1", "c2", "c1_c2"}
\* headers['x-goog-resource-uri'] when the request has no such header (undefined)
NoResourceUri == <<"undefined">>
\* a resource locator, as the sequence of its path segments: a plain calendar id, no
\* calendar segment, a percent-encoded id, a malformed escape, or no locator at all
ResourceUris ==
  { <<"calendars", "work", "events">>, <<"calendars", "events">>,
    <<"calendars", "team%40x", "events">>, <<"calendars", "%", "events">>,
    NoResourceUri }

\* sync_token IS NULL, or no row
NoToken == -1
\* what the store can hold for a calendar before the first delivery: nothing, or the
\* cursor of an earlier sync
StoredAtStart == {NoToken, 0}

Trigger(u, ch, uri) == [userId |-> u, channelId |-> ch, resourceUri |-> uri]
\* the deliveries tried: two channels of one user on the same calendar, another user
\* whose locator has no calendar segment, and a request whose path has no user id
Triggers ==
  { Trigger("u1", "c1", <<"calendars", "work", "events">>),
    Trigger("u1", "c2", <<"calendars", "work", "events">>),
    Trigger("u2", "c1", <<"calendars", "events">>),
    Trigger(NoUser, "c1", <<"calendars", "events">>) }
NoTrigger == [userId |-> NoUser, channelId |-> "c1", resourceUri |-> <<>>]

\* calendar_v3.Schema$Event: the fields the engine reads; "none" = the field is absent
EventIds == {"e1"}
Event(id, status, created, updated) ==
  [id |-> id, status |-> status, created |-> created, updated |-> updated]
PlainEvent == Event("e1", "confirmed", "t1", "t1")
Events ==
  { PlainEvent,
    Event("e1", "confirmed", "none", "none"),
    Event("e1", "tentative", "t1", "t2"),
    Event("e1", "cancelled", "t1", "t1"),
    Event("e1", "cancelled", "t1", "t2") }
\* response.data.items: the sequences of at most max events drawn from evs
Pages(evs, max) == UNION { [1..n -> evs] : n \in 0..max }
\* what the provider answers while two handlers interleave, and to a handler running alone
SmallPages == Pages({PlainEvent}, MaxChanges)
AllPages == Pages(Events, MaxBatch)

\* ----------------------------------------------------------- pure helpers
ProcessingKey(userId, channelId) == userId \o "_" \o channelId

\* what the derivation of the calendar id can throw instead of returning
TypeError == "TypeError"
URIError == "URIError"
Thrown == {TypeError, URIError}

\* decodeURIComponent on the segments tried: %40 is "@", a lone "%" is malformed
decodeURIComponent(segment) ==
  CASE segment = "team%40x" -> "team@x"
    [] segment = "%" -> URIError
    [] OTHER -> segment

\* /calendars\/([^\/]+)\/events/ : the segment between "calendars" and "events", decoded;
\* undefined.match(...) throws
extractCalendarIdFromResourceUri(resourceUri) ==
  LET hits == { i \in 1..Len(resourceUri) :
                  /\ i + 2 <= Len(resourceUri)
                  /\ resourceUri[i] = "calendars"
                  /\ resourceUri[i + 2] = "events" }
  IN IF resourceUri = NoResourceUri THEN TypeError
     ELSE IF hits = {} THEN "primary"
     ELSE decodeURIComponent(resourceUri[(CHOOSE i \in hits : \A j \in hits : i <= j) + 1])

Calendars == { extractCalendarIdFromResourceUri(r) : r \in ResourceUris } \ Thrown

\* calendarList.data.items: the lists of at most MaxCals different calendars
CalendarLists ==
  { q \in UNION { [1..n -> Calendars] : n \in 0..MaxCals } :
      \A i, j \in 1..Len(q) : i # j => q[i] # q[j] }
\* the pages of a full sync: a live event and a cancelled one
FsEvents == { PlainEvent, Event("e1", "cancelled", "t1", "t2") }
FsPages == Pages(FsEvents, MaxChanges)

\* response of the webhook endpoint; 0 = nothing sent yet
ResponseCodeLate(userId) == IF userId = NoUser THEN 400 ELSE 0
ResponseCode(userId) == IF userId = NoUser THEN 400 ELSE 200

\* processingQueue.has(processingKey)
AlwaysAccept(queue, key) == FALSE
IsDuplicate(queue, key) == key \in queue

\* finally { processingQueue.delete(processingKey) }
ReleaseOnSuccessOnly(queue, key, outcome) ==
  IF outcome = "rejected" THEN queue ELSE queue \ {key}
ReleaseKey(queue, key, outcome) == queue \ {key}

\* successCount === changes.length ? 'synced' : 'partial_sync'
FinalStatus(successCount, total) ==
  IF successCount = total THEN "synced" ELSE "partial_sync"

\* isUserCalendarConnected (database.ts 120-128) on the row of a connected user
isUserCalendarConnected(connection) == connection.sync_status = "active"

\* catch (error) { attempt++; ...
AttemptAfterCatchNoCount(attempt, err) == IF err = "gone" THEN attempt ELSE attempt + 1
AttemptAfterCatch(attempt, err) == attempt + 1

\* error.code === 410 || message.includes('Sync token is no longer valid')
IsCursorInvalid(err) == err = "gone"

\* if (response.data.nextSyncToken): the cursor of a response is stored
ShouldStoreOnlyWithItems(token, items) == token # NoToken /\ items # <<>>
ShouldStore(token, items) == token # NoToken

\* determineChangeType (lines 217-227)
determineChangeTypeStampsFirst(event) ==
  IF event.created = event.updated THEN "created"
  ELSE IF event.status = "cancelled" THEN "deleted" ELSE "updated"
determineChangeType(event) ==
  IF event.status = "cancelled" THEN "deleted"
  ELSE IF event.created = event.updated THEN "created"
  ELSE "updated"

\* (response.data.items || []).map(event => ({event, changeType}))
ChangesDropped(items) == <<>>
Changes(items) ==
  [i \in 1..Len(items) |-> [event |-> items[i], changeType |-> determineChangeType(items[i])]]

\* for (const change of changes): the position after one application
AfterApplicationStopOnFailure(idx, success, total) == IF success THEN idx + 1 ELSE total
AfterApplication(idx, success, total) == idx + 1

\* The vault calls of one application: search = GET /memories/search answered ok,
\* write = PUT or DELETE answered ok, post = POST /memories answered ok; a call that
\* throws is a call that is not ok.  n = memories the vault holds for the event id.
SinkCalls == [search : BOOLEAN, write : BOOLEAN, post : BOOLEAN]
AllOk == [search |-> TRUE, write |-> TRUE, post |-> TRUE]

\* storeInMemoryVault (part_002 229-259): POST /memories
storeInMemoryVault(n, calls) ==
  IF calls.post THEN [n |-> n + 1, ok |-> TRUE] ELSE [n |-> n, ok |-> FALSE]

\* updateInMemoryVault (part_002 261-305): search, PUT the first hit, else create
updateInMemoryVault(n, calls) ==
  IF calls.search /\ n > 0 /\ calls.write
    THEN [n |-> n, ok |-> TRUE]
    ELSE storeInMemoryVault(n, calls)

\* removeFromMemoryVault (part_002 307-345): search, DELETE the first hit
removeFromMemoryVaultStrict(n, calls) ==
  IF calls.search /\ n > 0 /\ calls.write THEN [n |-> n - 1, ok |-> TRUE]
  ELSE [n |-> n, ok |-> FALSE]
removeFromMemoryVault(n, calls) ==
  IF ~calls.search THEN [n |-> n, ok |-> FALSE]
  ELSE IF n = 0 THEN [n |-> n, ok |-> TRUE]
  ELSE IF calls.write THEN [n |-> n - 1, ok |-> TRUE]
  ELSE [n |-> n, ok |-> FALSE]

\* processCalendarChange (part_002 34-60): it catches everything and answers a boolean
processCalendarChange(n, changeType, calls) ==
  CASE changeType = "deleted" -> removeFromMemoryVault(n, calls)
    [] changeType = "updated" -> updateInMemoryVault(n, calls)
    [] OTHER -> storeInMemoryVault(n, calls)

\* ------------------------------------------------------------------ state
VARIABLES
  run,              \* per handler: the locals of handleCalendarWebhook .. fetchIncrementalChanges
  processingQueue,  \* WebhookHandler.processingQueue (its keys)
  syncToken,        \* table calendar_sync_tokens
  conn,             \* table user_calendar_connections: sync_status, last_sync_at
  delivered,        \* webhook deliveries so far
  nextTok,          \* next fresh cursor of the provider
  rejected,         \* cursors the provider has answered with 410
  vault,            \* memory vault: number of memories per (user, event id)
  fs,               \* the locals of performFullSync
  webhooks,         \* table user_calendar_connections: webhook_id, webhook_expiration
  refresh           \* the locals of refreshExpiredWebhooks

vars ==
  <<run, processingQueue, syncToken, conn, delivered, nextTok, rejected, vault, fs,
    webhooks, refresh>>

IdleRun ==
  [ pc |-> "idle", trig |-> NoTrigger, response |-> 0, outcome |-> "none",
    attempt |-> 0, tries |-> 0, lastSyncToken |-> NoToken, fresh |-> NoToken,
    respItems |-> <<>>, changes |-> <<>>, idx |-> 0, successCount |-> 0,
    applied |-> <<>>, lastErr |-> "none", nWrites |-> 0, sleeps |-> 0, slept |-> 0,
    cleared |-> 0,
    authWrites |-> 0 ]

\* pageToken 0 = undefined; result = what performFullSync has returned
IdleFs ==
  [ pc |-> "idle", userId |-> NoUser, calendars |-> <<>>, ci |-> 0, pageToken |-> 0,
    events |-> <<>>, ei |-> 0, totalSynced |-> 0, fresh |-> NoToken,
    attempted |-> <<>>, failed |-> <<>>, received |-> <<>>, applied |-> <<>>,
    pagesListed |-> 0, refreshCalls |-> 0, result |-> "none", wrote |-> <<>> ]

\* expiredWebhooks = the users enumerated by the cycle, i = the position of the for loop
IdleRefresh == [pc |-> "idle", expiredWebhooks |-> <<>>, i |-> 0]

Init ==
  /\ fs = IdleFs
  /\ webhooks = [u \in Users |-> "live"]
  /\ refresh = IdleRefresh
  /\ run = [s \in Slots |-> IdleRun]
  /\ processingQueue = {}
  /\ \E t \in StoredAtStart : syncToken = [k \in Users \X Calendars |-> t]
  /\ conn = [u \in Users |-> [sync_status |-> "active", last_sync_at |-> 0]]
  /\ delivered = 0
  /\ nextTok = 1
  /\ rejected = {}
  /\ vault = [k \in Users \X EventIds |-> 0]

KeyOf(r) == ProcessingKey(r.trig.userId, r.trig.channelId)
CalOf(r) == extractCalendarIdFromResourceUri(r.trig.resourceUri)
Running(r) == r.pc \notin {"idle", "done"}

\* new Date(): time advances with the deliveries
Now == delivered

\* dbService.updateCalendarConnection(userId, {sync_status, last_sync_at}); ok = the query resolved
UpdateCalendarConnection(userId, status, ok) ==
  /\ conn' = IF ok THEN [conn EXCEPT ![userId] = [sync_status |-> status, last_sync_at |-> Now]]
             ELSE conn

\* one more connection-status write issued by doProcessWebhook or scheduleFullSync
Wrote(r) == [r EXCEPT !.nWrites = @ + 1]

\* the run has settled: processWebhookAsync's finally block
Settle(s, r, outcome) ==
  /\ run' = [run EXCEPT ![s] = [IdleRun EXCEPT !.pc = "done", !.outcome = outcome,
                                               !.trig = r.trig, !.response = r.response,
                                               !.nWrites = r.nWrites]]
  /\ processingQueue' = ReleaseKey(processingQueue, KeyOf(r), outcome)

\* const delay = Math.pow(2, attempt) * 1000 (line 208), in milliseconds
BackoffLinear(attempt) == attempt * 1000
Backoff(attempt) == (2 ^ attempt) * 1000

\* fetchIncrementalChanges, lines 203-211: rethrow or back off and loop
AfterCatchNoBackoff(r, err) ==
  IF r.attempt >= maxRetries
    THEN [r EXCEPT !.pc = "writeError", !.lastErr = err, !.sleeps = 0, !.slept = 0, !.cleared = 0,
                   !.authWrites = 0]
    ELSE [r EXCEPT !.pc = "auth", !.tries = @ + 1]
AfterCatch(r, err) ==
  IF r.attempt >= maxRetries
    THEN [r EXCEPT !.pc = "writeError", !.lastErr = err, !.sleeps = 0, !.slept = 0, !.cleared = 0,
                   !.authWrites = 0]
    ELSE [r EXCEPT !.pc = "auth", !.tries = @ + 1, !.sleeps = @ + 1,
                   !.slept = @ + Backoff(r.attempt)]

\* fetchIncrementalChanges, lines 188-196: the catch block up to its first await
Caught(r, err) ==
  LET c == [r EXCEPT !.attempt = AttemptAfterCatch(@, err), !.lastSyncToken = NoToken]
  IN IF IsCursorInvalid(err) THEN [c EXCEPT !.pc = "clearToken"] ELSE AfterCatch(c, err)

\* doProcessWebhook, lines 89-97: fetchIncrementalChanges has returned the changes of items
ReturnedNoEarlyExit(s, r, items) ==
  /\ run' = [run EXCEPT ![s] = [r EXCEPT !.changes = Changes(items), !.idx = 0,
                                         !.successCount = 0, !.attempt = 0, !.tries = 0,
                                         !.sleeps = 0, !.slept = 0, !.cleared = 0, !.authWrites = 0,
                                         !.pc = IF items = <<>> THEN "finalize" ELSE "apply"]]
  /\ UNCHANGED processingQueue
Returned(s, r, items) ==
  LET got == [r EXCEPT !.changes = Changes(items), !.idx = 0, !.successCount = 0,
                       !.attempt = 0, !.tries = 0, !.sleeps = 0, !.slept = 0, !.cleared = 0,
                       !.authWrites = 0]
  IN IF Len(got.changes) = 0
       THEN Settle(s, got, "no_changes")
       ELSE /\ run' = [run EXCEPT ![s] = [got EXCEPT !.pc = "apply"]]
            /\ UNCHANGED processingQueue

\* dbService.getSyncToken (database.ts 130-142): the stored cursor, or null when the read fails
GetSyncTokenStale(stored, readOk) ==
  IF readOk THEN (IF stored > 0 THEN stored - 1 ELSE stored) ELSE NoToken
GetSyncToken(stored, readOk) == IF readOk THEN stored ELSE NoToken

\* const lastSyncToken = await dbService.getSyncToken(userId, calendarId) (lines 151-152):
\* the attempt goes on to the list call with what the store answered
ReadCursorRaises(r, stored, readOk) ==
  IF readOk THEN [r EXCEPT !.pc = "list", !.lastSyncToken = stored]
  ELSE [r EXCEPT !.pc = "writeError", !.lastErr = "transient"]
ReadCursor(r, stored, readOk) ==
  [r EXCEPT !.pc = "list", !.lastSyncToken = GetSyncToken(stored, readOk)]

\* the handlers are interchangeable: the first delivery takes "h1"
FreeSlot(s) == s = "h1" \/ run["h1"].pc # "idle"

\* ---------------------------------------------------------------- actions
\* transport (http.ts 155-177) + handleCalendarWebhook + processWebhookAsync up to the first await
HandleCalendarWebhook(s, t) ==
  /\ ~Running(run[s])
  /\ FreeSlot(s)
  /\ delivered < MaxTriggers
  /\ delivered' = delivered + 1
  /\ LET r == [IdleRun EXCEPT !.trig = t, !.response = ResponseCode(t.userId)]
     IN IF t.userId = NoUser
          THEN /\ run' = [run EXCEPT ![s] = [r EXCEPT !.pc = "done", !.outcome = "bad_request"]]
               /\ UNCHANGED processingQueue
          ELSE IF IsDuplicate(processingQueue, KeyOf(r))
            THEN /\ run' = [run EXCEPT ![s] = [r EXCEPT !.pc = "done", !.outcome = "dropped"]]
                 /\ UNCHANGED processingQueue
            ELSE /\ run' = [run EXCEPT ![s] = [r EXCEPT !.pc = "auth", !.tries = 1]]
                 /\ processingQueue' = processingQueue \cup {KeyOf(r)}
  /\ UNCHANGED <<syncToken, conn, nextTok, rejected, vault, fs, webhooks, refresh>>

\* authService.getAuthenticatedClient resolves (auth.ts 12-96); with a client, lines 148-152
\* go on to dbService.getSyncToken (database.ts 130-142), where a read error gives null
GetAuthenticatedClient(s) ==
  /\ run[s].pc = "auth"
  /\ \/ /\ CalOf(run[s]) \notin Thrown
        /\ \E readOk \in BOOLEAN :
             run' = [run EXCEPT ![s] =
                       ReadCursor(@, syncToken[<<run[s].trig.userId, CalOf(run[s])>>], readOk)]
        /\ UNCHANGED conn
     \/ \* the derivation of the calendar id throws inside the try block (line 151)
        /\ CalOf(run[s]) \in Thrown
        /\ run' = [run EXCEPT ![s] = Caught(@, "locator")]
        /\ UNCHANGED conn
     \/ /\ run' = [run EXCEPT ![s] = Caught(@, "auth")]
        /\ UNCHANGED conn
     \/ \E ok \in BOOLEAN :
          \* refreshUserToken failed: it marks the connection before returning null
          /\ UpdateCalendarConnection(run[s].trig.userId, "error", ok)
          /\ run' = [run EXCEPT ![s] = Caught([@ EXCEPT !.authWrites = @ + 1], "auth")]
  /\ UNCHANGED <<processingQueue, syncToken, delivered, nextTok, rejected, vault, fs,
                 webhooks, refresh>>

\* calendar.events.list resolves or rejects (lines 173-186 and the catch at 188)
EventsList(s, pages) ==
  LET r == run[s]
      k == <<r.trig.userId, CalOf(r), r.lastSyncToken>>
      known == k \in rejected
  IN
  /\ r.pc = "list"
  /\ \/ \* 410: the provider rejects the cursor of the request
        /\ r.lastSyncToken # NoToken
        /\ rejected' = rejected \cup {k}
        /\ run' = [run EXCEPT ![s] = Caught(r, "gone")]
        /\ UNCHANGED <<processingQueue, nextTok>>
     \/ \* network error, rate limit, 5xx
        /\ run' = [run EXCEPT ![s] = Caught(r, "transient")]
        /\ UNCHANGED <<processingQueue, nextTok, rejected>>
     \/ \* a page of items without nextSyncToken
        /\ ~known
        /\ \E items \in pages :
             Returned(s, [r EXCEPT !.respItems = items, !.lastSyncToken = NoToken], items)
        /\ UNCHANGED <<nextTok, rejected>>
     \/ \* a page of items with a fresh nextSyncToken
        /\ ~known
        /\ nextTok <= MaxTok
        /\ \E items \in pages :
             LET got == [r EXCEPT !.respItems = items, !.lastSyncToken = NoToken]
             IN IF ShouldStore(nextTok, items)
                  THEN /\ run' = [run EXCEPT ![s] = [got EXCEPT !.fresh = nextTok,
                                                                 !.pc = "storeToken"]]
                       /\ UNCHANGED processingQueue
                  ELSE Returned(s, got, items)
        /\ nextTok' = nextTok + 1
        /\ UNCHANGED rejected
  /\ UNCHANGED <<syncToken, conn, delivered, vault, fs, webhooks, refresh>>

\* dbService.updateSyncToken(userId, calendarId, nextSyncToken) resolves (line 177);
\* a failed query is swallowed (database.ts 155-158)
StoreSyncToken(s) ==
  LET r == run[s] IN
  /\ r.pc = "storeToken"
  /\ \E ok \in BOOLEAN :
       syncToken' = IF ok THEN [syncToken EXCEPT ![<<r.trig.userId, CalOf(r)>>] = r.fresh]
                    ELSE syncToken
  /\ Returned(s, [r EXCEPT !.fresh = NoToken], r.respItems)
  /\ UNCHANGED <<conn, delivered, nextTok, rejected, vault, fs, webhooks, refresh>>

\* dbService.updateSyncToken(userId, calendarId, null) resolves (line 196), then lines 198-211
ClearSyncToken(s) ==
  LET r == [run[s] EXCEPT !.cleared = @ + 1] IN
  /\ r.pc = "clearToken"
  /\ \E ok \in BOOLEAN :
       /\ syncToken' = IF ok THEN [syncToken EXCEPT ![<<r.trig.userId, CalOf(r)>>] = NoToken]
                       ELSE syncToken
       /\ run' = [run EXCEPT ![s] =
                    IF r.attempt < maxRetries
                      THEN [r EXCEPT !.pc = "auth", !.tries = @ + 1]
                      ELSE AfterCatch(r, "gone")]
  /\ UNCHANGED <<processingQueue, conn, delivered, nextTok, rejected, vault, fs, webhooks, refresh>>

\* memorySync.processCalendarChange resolves for the next change (lines 98-113), its vault
\* calls answered as in calls; it never throws
ApplyChange(s, calls) ==
  LET r == run[s]
      change == r.changes[r.idx + 1]
      k == <<r.trig.userId, change.event.id>>
      done == processCalendarChange(vault[k], change.changeType, calls)
      a == [r EXCEPT !.idx = AfterApplication(@, done.ok, Len(r.changes)),
                     !.successCount = IF done.ok THEN @ + 1 ELSE @,
                     !.applied = Append(@, change)]
  IN
  /\ r.pc = "apply"
  /\ done.n <= MaxMem
  /\ vault' = [vault EXCEPT ![k] = done.n]
  /\ run' = [run EXCEPT ![s] = IF a.idx >= Len(a.changes)
                                 THEN [a EXCEPT !.pc = "finalize"] ELSE a]
  /\ UNCHANGED <<processingQueue, syncToken, conn, delivered, nextTok, rejected, fs,
                 webhooks, refresh>>

ProcessCalendarChange(s) == \E calls \in SinkCalls : ApplyChange(s, calls)

\* lines 116-121: the status write at the end of a run with changes
Finalize(s) ==
  LET r == run[s]
      status == FinalStatus(r.successCount, Len(r.changes))
  IN
  /\ r.pc = "finalize"
  /\ \E ok \in BOOLEAN :
       /\ UpdateCalendarConnection(r.trig.userId, status, ok)
       /\ IF ok
            THEN Settle(s, Wrote(r), "finalized")
            ELSE /\ run' = [run EXCEPT ![s] =
                              [Wrote(r) EXCEPT !.pc = "writeError", !.lastErr = "db",
                                               !.respItems = <<>>, !.changes = <<>>,
                                               !.applied = <<>>, !.idx = 0,
                                               !.successCount = 0]]
                 /\ UNCHANGED processingQueue
  /\ UNCHANGED <<syncToken, delivered, nextTok, rejected, vault, fs, webhooks, refresh>>

\* lines 123-130: the catch block of doProcessWebhook writes 'error'
WriteErrorStatus(s) ==
  LET r == run[s] IN
  /\ r.pc = "writeError"
  /\ \E ok \in BOOLEAN :
       /\ UpdateCalendarConnection(r.trig.userId, "error", ok)
       /\ IF ok
            THEN /\ run' = [run EXCEPT ![s] = [Wrote(r) EXCEPT !.pc = "schedule"]]
                 /\ UNCHANGED processingQueue
            ELSE \* the write throws inside the catch block: the promise rejects
                 Settle(s, Wrote(r), "rejected")
  /\ UNCHANGED <<syncToken, delivered, nextTok, rejected, vault, fs, webhooks, refresh>>

\* scheduleFullSync (lines 235-252): its own failure is logged and swallowed
ScheduleFullSync(s) ==
  LET r == run[s] IN
  /\ r.pc = "schedule"
  /\ \E ok \in BOOLEAN :
       /\ UpdateCalendarConnection(r.trig.userId, "scheduled_full_sync", ok)
       /\ Settle(s, Wrote(r), IF ok THEN "scheduled" ELSE "schedule_failed")
  /\ UNCHANGED <<syncToken, delivered, nextTok, rejected, vault, fs, webhooks, refresh>>

\* ------------------------------------------------------------- full sync
FsCal(f) == f.calendars[f.ci]
FsRunning(f) == f.pc \notin {"idle", "done"}

\* performFullSync has returned (or its promise has rejected)
FsReturn(f, result) ==
  [IdleFs EXCEPT !.pc = "done", !.userId = f.userId, !.result = result, !.wrote = f.wrote]

\* the end of one iteration of the for loop over the calendars (lines 275-331); threw =
\* the iteration ended in the catch block of the calendar
ToNextCalendar(f, threw) ==
  LET g == [f EXCEPT !.failed = IF threw THEN Append(@, FsCal(f)) ELSE @,
                     !.events = <<>>, !.ei = 0, !.pageToken = 0, !.fresh = NoToken,
                     !.received = <<>>, !.applied = <<>>, !.pagesListed = 0,
                     !.refreshCalls = 0]
  IN IF f.ci < Len(f.calendars)
       THEN [g EXCEPT !.ci = @ + 1, !.pc = "fsList",
                      !.attempted = Append(@, f.calendars[f.ci + 1])]
       ELSE [g EXCEPT !.pc = "fsFinal"]
AfterCalendarAbortOnFailure(f, threw) ==
  IF threw THEN [f EXCEPT !.pc = "fsError"] ELSE ToNextCalendar(f, threw)
AfterCalendar(f, threw) == ToNextCalendar(f, threw)

\* the end of the for loop over the events of a page and the test of the do-while
\* (lines 302-317)
AfterPageFirstOnly(f) == [f EXCEPT !.pc = "fsRefresh"]
AfterPage(f) ==
  IF f.pageToken # 0 THEN [f EXCEPT !.pc = "fsList"] ELSE [f EXCEPT !.pc = "fsRefresh"]

\* POST /webhook/full-sync/:userId (http.ts 179-188, 263-287): performFullSync starts
PerformFullSync(u) ==
  /\ ~FsRunning(fs)
  /\ delivered < MaxTriggers
  /\ delivered' = delivered + 1
  /\ fs' = [IdleFs EXCEPT !.pc = "fsAuth", !.userId = u]
  /\ UNCHANGED <<run, processingQueue, syncToken, conn, nextTok, rejected, vault,
                 webhooks, refresh>>

\* authService.getAuthenticatedClient resolves (lines 258-261)
FsGetAuthenticatedClient ==
  /\ fs.pc = "fsAuth"
  /\ \/ /\ fs' = [fs EXCEPT !.pc = "fsCalendarList"]
        /\ UNCHANGED conn
     \/ /\ fs' = [fs EXCEPT !.pc = "fsError"]
        /\ UNCHANGED conn
     \/ \E ok \in BOOLEAN :
          \* refreshUserToken failed: it marks the connection before returning null
          /\ UpdateCalendarConnection(fs.userId, "error", ok)
          /\ fs' = [fs EXCEPT !.pc = "fsError"]
  /\ UNCHANGED <<run, processingQueue, syncToken, delivered, nextTok, rejected, vault,
                 webhooks, refresh>>

\* calendar.calendarList.list resolves or rejects (lines 266-275)
FsCalendarList ==
  /\ fs.pc = "fsCalendarList"
  /\ \/ fs' = [fs EXCEPT !.pc = "fsError"]
     \/ \* no items in the answer: return true
        fs' = FsReturn(fs, "true")
     \/ \E cals \in CalendarLists :
          fs' = IF cals = <<>>
                  THEN [fs EXCEPT !.pc = "fsFinal"]
                  ELSE [fs EXCEPT !.calendars = cals, !.ci = 1, !.pc = "fsList",
                                  !.attempted = <<cals[1]>>]
  /\ UNCHANGED <<run, processingQueue, syncToken, conn, delivered, nextTok, rejected, vault,
                 webhooks, refresh>>

\* calendar.events.list of the paging loop resolves or rejects (lines 289-301, 315)
FsEventsList ==
  /\ fs.pc = "fsList"
  /\ \/ fs' = AfterCalendar(fs, TRUE)
     \/ \E items \in FsPages, more \in BOOLEAN :
          /\ more => fs.pagesListed + 1 < MaxPages
          /\ LET f == [fs EXCEPT !.events = items, !.ei = 0,
                                  !.pagesListed = @ + 1,
                                  !.received = @ \o items,
                                  !.pageToken = IF more THEN fs.pagesListed + 1 ELSE 0]
             IN fs' = IF items = <<>> THEN AfterPage(f) ELSE [f EXCEPT !.pc = "fsApply"]
  /\ UNCHANGED <<run, processingQueue, syncToken, conn, delivered, nextTok, rejected, vault,
                 webhooks, refresh>>

\* memorySync.processCalendarChange(userId, event, 'created') resolves (lines 302-312), its
\* vault calls answered as in calls
FsApplyEvent(calls) ==
  LET event == fs.events[fs.ei + 1]
      k == <<fs.userId, event.id>>
      done == processCalendarChange(vault[k], "created", calls)
      f == [fs EXCEPT !.ei = @ + 1,
                      !.totalSynced = IF done.ok THEN @ + 1 ELSE @,
                      !.applied = Append(@, [event |-> event, changeType |-> "created"])]
  IN
  /\ fs.pc = "fsApply"
  /\ done.n <= MaxMem
  /\ vault' = [vault EXCEPT ![k] = done.n]
  /\ fs' = IF f.ei >= Len(f.events) THEN AfterPage(f) ELSE f
  /\ UNCHANGED <<run, processingQueue, syncToken, conn, delivered, nextTok, rejected,
                 webhooks, refresh>>

FsProcessCalendarChange == \E calls \in SinkCalls : FsApplyEvent(calls)

\* calendar.events.list({calendarId, maxResults: 1}) resolves or rejects (lines 319-326)
FsRefreshList ==
  /\ fs.pc = "fsRefresh"
  /\ \/ /\ fs' = AfterCalendar([fs EXCEPT !.refreshCalls = @ + 1], TRUE)
        /\ UNCHANGED nextTok
     \/ \* an answer without nextSyncToken
        /\ fs' = AfterCalendar([fs EXCEPT !.refreshCalls = @ + 1], FALSE)
        /\ UNCHANGED nextTok
     \/ /\ nextTok <= MaxTok
        /\ fs' = [fs EXCEPT !.refreshCalls = @ + 1, !.fresh = nextTok, !.pc = "fsStore"]
        /\ nextTok' = nextTok + 1
  /\ UNCHANGED <<run, processingQueue, syncToken, conn, delivered, rejected, vault,
                 webhooks, refresh>>

\* dbService.updateSyncToken(userId, calendarId, nextSyncToken) resolves (line 325); ok =
\* the store accepted the write
FsUpdateSyncToken(ok) ==
  /\ fs.pc = "fsStore"
  /\ syncToken' = IF ok THEN [syncToken EXCEPT ![<<fs.userId, FsCal(fs)>>] = fs.fresh]
                  ELSE syncToken
  /\ fs' = AfterCalendar(fs, FALSE)
  /\ UNCHANGED <<run, processingQueue, conn, delivered, nextTok, rejected, vault,
                 webhooks, refresh>>

FsStoreSyncToken == \E ok \in BOOLEAN : FsUpdateSyncToken(ok)

\* lines 333-340: the status write after the loop over the calendars
FsFinalWrite ==
  /\ fs.pc = "fsFinal"
  /\ \E ok \in BOOLEAN :
       /\ UpdateCalendarConnection(fs.userId, "synced", ok)
       /\ LET f == [fs EXCEPT !.wrote = Append(@, "synced")]
          IN fs' = IF ok THEN FsReturn(f, "true") ELSE [f EXCEPT !.pc = "fsError"]
  /\ UNCHANGED <<run, processingQueue, syncToken, delivered, nextTok, rejected, vault,
                 webhooks, refresh>>

\* lines 342-351: the catch block of performFullSync
FsErrorWrite ==
  /\ fs.pc = "fsError"
  /\ \E ok \in BOOLEAN :
       /\ UpdateCalendarConnection(fs.userId, "error", ok)
       /\ LET f == [fs EXCEPT !.wrote = Append(@, "error")]
          IN fs' = FsReturn(f, IF ok THEN "false" ELSE "rejected")
  /\ UNCHANGED <<run, processingQueue, syncToken, delivered, nextTok, rejected, vault,
                 webhooks, refresh>>

\* --------------------------------------------------------- webhook refresh
\* A row's webhook columns: "live" = webhook_id set and webhook_expiration in the future,
\* "expired" = webhook_id set and webhook_expiration < NOW(), "none" = both NULL.

\* dbService.getExpiredWebhooks (database.ts 225-248): the users whose row is expired, in
\* the order the query returns them; [] when the query fails
getExpiredWebhooks(rows, queryOk) ==
  IF ~queryOk THEN {<<>>}
  ELSE LET expired == { u \in DOMAIN rows : rows[u] = "expired" }
       IN { q \in UNION { [1..n -> expired] : n \in {Cardinality(expired)} } :
              \A i, j \in 1..Len(q) : i # j => q[i] # q[j] }

\* unregisterCalendarWebhook (webhookService.ts 97-126): without webhook info nothing is
\* done; otherwise dbService.unregisterWebhook sets the webhook columns to NULL, and its
\* failure is swallowed
AfterUnregister(row, infoOk, dbOk) == IF infoOk /\ dbOk THEN "none" ELSE row

\* what registerCalendarWebhook (webhookService.ts 22-95) can come to
RegisterOutcomes ==
  {"registered", "no_client", "refresh_failed", "invalid_response", "store_failed",
   "unauthorized", "forbidden", "threw"}

\* dbService.registerWebhook sets webhook_id and an expiration 6 days ahead
AfterRegister(row, outcome) == IF outcome = "registered" THEN "live" ELSE row

\* updateCalendarConnection(userId, {sync_status}) on the table c; ok = the query resolved
UpdateSyncStatus(c, userId, status, ok) ==
  IF ok THEN [c EXCEPT ![userId].sync_status = status] ELSE c

\* the end of one iteration of the for loop over expiredWebhooks (lines 160-185)
RefreshNext(r) ==
  IF r.i < Len(r.expiredWebhooks) THEN [r EXCEPT !.i = @ + 1, !.pc = "unregister"]
  ELSE IdleRefresh

RefreshUser == refresh.expiredWebhooks[refresh.i]

\* the expiration of a registered channel passes (registered for 6 days, line 38-39)
WebhookExpires(u) ==
  /\ webhooks[u] = "live"
  /\ webhooks' = [webhooks EXCEPT ![u] = "expired"]
  /\ UNCHANGED <<run, processingQueue, syncToken, conn, delivered, nextTok, rejected, vault,
                 fs, refresh>>

\* the timer of setupWebhookRefreshSchedule fires: refreshExpiredWebhooks up to the loop
RefreshExpiredWebhooks ==
  /\ refresh.pc = "idle"
  /\ \E queryOk \in BOOLEAN :
       \E q \in getExpiredWebhooks(webhooks, queryOk) :
         refresh' = IF q = <<>> THEN IdleRefresh
                    ELSE [pc |-> "unregister", expiredWebhooks |-> q, i |-> 1]
  /\ UNCHANGED <<run, processingQueue, syncToken, conn, delivered, nextTok, rejected, vault,
                 fs, webhooks>>

\* await this.unregisterCalendarWebhook(webhook.userId) (line 163)
UnregisterCalendarWebhook ==
  /\ refresh.pc = "unregister"
  /\ \E infoOk, dbOk \in BOOLEAN :
       webhooks' = [webhooks EXCEPT ![RefreshUser] = AfterUnregister(@, infoOk, dbOk)]
  /\ refresh' = [refresh EXCEPT !.pc = "register"]
  /\ UNCHANGED <<run, processingQueue, syncToken, conn, delivered, nextTok, rejected, vault,
                 fs>>

\* await this.registerCalendarWebhook(webhook.userId) and what follows it (lines 166-181);
\* ok1 = the status write inside registerCalendarWebhook or the auth service resolved,
\* ok2 = the write of webhook_error resolved
RegisterCalendarWebhook ==
  /\ refresh.pc = "register"
  /\ \E outcome \in RegisterOutcomes, ok1, ok2 \in BOOLEAN :
       LET u == RefreshUser
           c1 == CASE outcome = "refresh_failed" ->
                        IF ok1 THEN [conn EXCEPT ![u] = [sync_status |-> "error",
                                                         last_sync_at |-> Now]]
                        ELSE conn
                   [] outcome = "unauthorized" -> UpdateSyncStatus(conn, u, "auth_error", ok1)
                   [] outcome = "forbidden" -> UpdateSyncStatus(conn, u, "permission_error", ok1)
                   [] OTHER -> conn
           \* a rejected status write in the catch block of registerCalendarWebhook rejects
           \* its promise: the loop's catch logs and no webhook_error is written
           rejects == outcome \in {"unauthorized", "forbidden"} /\ ~ok1
       IN /\ webhooks' = [webhooks EXCEPT ![u] = AfterRegister(@, outcome)]
          /\ conn' = IF outcome = "registered" \/ rejects THEN c1
                     ELSE UpdateSyncStatus(c1, u, "webhook_error", ok2)
  /\ refresh' = RefreshNext(refresh)
  /\ UNCHANGED <<run, processingQueue, syncToken, delivered, nextTok, rejected, vault, fs>>

Next ==
  \/ \E s \in Slots, t \in Triggers : HandleCalendarWebhook(s, t)
  \/ \E s \in Slots : GetAuthenticatedClient(s)
  \/ \E s \in Slots : EventsList(s, SmallPages)
  \/ \E s \in Slots : StoreSyncToken(s)
  \/ \E s \in Slots : ClearSyncToken(s)
  \/ \E s \in Slots : ProcessCalendarChange(s)
  \/ \E s \in Slots : Finalize(s)
  \/ \E s \in Slots : WriteErrorStatus(s)
  \/ \E s \in Slots : ScheduleFullSync(s)

Spec == Init /\ [][Next]_vars

\* the awaited operations of a handler resolve or reject, and the event loop runs the continuation
Continue(s, pages) ==
  \/ GetAuthenticatedClient(s) \/ EventsList(s, pages) \/ StoreSyncToken(s) \/ ClearSyncToken(s)
  \/ ProcessCalendarChange(s) \/ Finalize(s) \/ WriteErrorStatus(s) \/ ScheduleFullSync(s)
Step(s) == Continue(s, SmallPages)

\* one handler at a time: the deliveries are handled one after the other
NextOne == (\E t \in Triggers : HandleCalendarWebhook("h1", t)) \/ Step("h1")

FetchSpec == Init /\ [][NextOne]_vars /\ WF_vars(Step("h1"))

\* one handler at a time, and the provider answers with any page of events
NextAll == (\E t \in Triggers : HandleCalendarWebhook("h1", t)) \/ Continue("h1", AllPages)

ApplySpec == Init /\ [][NextAll]_vars

\* two handlers, deliveries of two (userId, channelId) pairs that differ in both parts
KeyTriggers ==
  { Trigger("u1", "c1_c2", <<"calendars", "work", "events">>),
    Trigger("u1_c1", "c2", <<"calendars", "work", "events">>) }
NextKey ==
  \/ \E s \in Slots, t \in KeyTriggers : HandleCalendarWebhook(s, t)
  \/ \E s \in Slots : Continue(s, SmallPages)
KeySpec == Init /\ [][NextKey]_vars

\* two handlers, deliveries on two channels of one user that watch the same calendar, from
\* the state in which nothing is stored and the provider has not handed out a cursor yet
RaceInit ==
  /\ fs = IdleFs
  /\ webhooks = [u \in Users |-> "live"]
  /\ refresh = IdleRefresh
  /\ run = [s \in Slots |-> IdleRun]
  /\ processingQueue = {}
  /\ syncToken = [k \in Users \X Calendars |-> NoToken]
  /\ conn = [u \in Users |-> [sync_status |-> "active", last_sync_at |-> 0]]
  /\ delivered = 0
  /\ nextTok = 0
  /\ rejected = {}
  /\ vault = [k \in Users \X EventIds |-> 0]
RaceTriggers ==
  { Trigger("u1", "c1", <<"calendars", "work", "events">>),
    Trigger("u1", "c2", <<"calendars", "work", "events">>) }
NextRace ==
  \/ \E s \in Slots, t \in RaceTriggers : HandleCalendarWebhook(s, t)
  \/ \E s \in Slots : Continue(s, SmallPages)
RaceSpec == RaceInit /\ [][NextRace]_vars

\* one handler, deliveries whose locator is encoded, malformed or absent
LocatorTriggers ==
  { Trigger("u1", "c1", <<"calendars", "team%40x", "events">>),
    Trigger("u1", "c1", <<"calendars", "%", "events">>),
    Trigger("u1", "c1", NoResourceUri) }
NextLocator == (\E t \in LocatorTriggers : HandleCalendarWebhook("h1", t)) \/ Step("h1")
LocatorSpec == Init /\ [][NextLocator]_vars

\* the recurring refresh of the channels of these users
RefreshUsers == {"u1", "u2"}
NextRefresh ==
  \/ \E u \in RefreshUsers : WebhookExpires(u)
  \/ RefreshExpiredWebhooks
  \/ UnregisterCalendarWebhook
  \/ RegisterCalendarWebhook
RefreshSpec == Init /\ [][NextRefresh]_vars

\* full syncs on demand, one after the other, for these users
FullSyncUsers == {"u1", "u2"}
NextFull ==
  \/ \E u \in FullSyncUsers : PerformFullSync(u)
  \/ FsGetAuthenticatedClient
  \/ FsCalendarList
  \/ FsEventsList
  \/ FsProcessCalendarChange
  \/ FsRefreshList
  \/ FsStoreSyncToken
  \/ FsFinalWrite
  \/ FsErrorWrite

FullSyncSpec == Init /\ [][NextFull]_vars

\* ----------------------------------------------------------------- claims
UserOf(s) == run[s].trig.userId
Fetching(r) == r.pc \in {"auth", "list", "storeToken", "clearToken"}
FetchErrors == {"auth", "transient", "gone"}
RunLevelFailure(r) == r.pc \in {"writeError", "schedule"} \/ r.outcome \in {"scheduled", "schedule_failed", "rejected"}

\* C1: at most one run per processing key is in flight; a trigger that arrives while a run
\* for its key is outstanding is dropped: it fetches nothing, applies nothing, writes nothing,
\* and is never started later
C1_OneRunPerKey ==
  /\ [](\A a, b \in Slots :
          Running(run[a]) /\ Running(run[b]) /\ KeyOf(run[a]) = KeyOf(run[b]) => a = b)
  /\ [](\A s \in Slots :
          run[s].outcome = "dropped" =>
            /\ run[s].pc = "done" /\ run[s].tries = 0
            /\ run[s].changes = <<>> /\ run[s].nWrites = 0)
  /\ [][\A s \in Slots :
          run[s].outcome = "dropped" /\ run'[s] # run[s] => delivered' = delivered + 1]_vars

C1_Witness ==
  \E a, b \in Slots :
    /\ Running(run[a]) /\ run[b].outcome = "dropped"
    /\ KeyOf(run[a]) = KeyOf(run[b])

\* C2: a key is in the in-flight map exactly while the run registered under it is executing
\* (it is removed when the run settles, resolved or rejected), so a trigger that arrives
\* after the run has finished is accepted
C2_KeyHeldOnlyWhileRunning ==
  /\ [](processingQueue = { KeyOf(run[s]) : s \in { x \in Slots : Running(run[x]) } })
  /\ [][\A s \in Slots, t \in Triggers :
          /\ HandleCalendarWebhook(s, t)
          /\ t.userId # NoUser
          /\ \A x \in Slots : Running(run[x]) => KeyOf(run[x]) # ProcessingKey(t.userId, t.channelId)
          => run'[s].pc = "auth"]_vars

C2_Witness ==
  \E a, b \in Slots :
    /\ run[a].pc = "done" /\ run[a].outcome = "rejected"
    /\ Running(run[b]) /\ KeyOf(run[a]) = KeyOf(run[b])
    /\ processingQueue = {KeyOf(run[b])}

\* C3 (as claimed): the status write at the end of a run with N > 0 changes stores `active`
\* when all N were applied and `partial_sync` otherwise, with the last-sync timestamp
C3_FinalStatusAsClaimed ==
  [][\A s \in Slots :
       run[s].pc = "finalize" /\ run'[s].outcome = "finalized" =>
         /\ conn'[UserOf(s)].sync_status =
              (IF run[s].successCount = Len(run[s].changes) THEN "active" ELSE "partial_sync")
         /\ conn'[UserOf(s)].last_sync_at = Now]_vars

\* C4 (as claimed): on a run-level failure the handler stores `error`, then scheduleFullSync
\* runs and stores `scheduled_full_sync`
C4_ErrorThenScheduledAsClaimed ==
  [][\A s \in Slots :
       /\ run[s].pc = "writeError" /\ run'[s] # run[s] =>
            run'[s].pc = "schedule" /\ conn'[UserOf(s)].sync_status = "error"
       /\ run[s].pc = "schedule" /\ run'[s] # run[s] =>
            run'[s].outcome = "scheduled" /\ conn'[UserOf(s)].sync_status = "scheduled_full_sync"]_vars

\* C5 (as claimed): every run that has settled made exactly one connection-status write
RanToEnd(r) == r.pc = "done" /\ r.outcome \notin {"bad_request", "dropped"}
C5_ExactlyOneWriteAsClaimed == \A s \in Slots : RanToEnd(run[s]) => run[s].nWrites = 1

\* C5 (amended): doProcessWebhook and scheduleFullSync together make no status write in a
\* run with zero changes, exactly one in a run with changes whose final write succeeds, and
\* in the failure path the `error` write followed, when it succeeds, by the
\* `scheduled_full_sync` write (on top of a failed final write when that caused the failure)
C5_WritesPerRun ==
  \A s \in Slots :
    LET r == run[s] IN
    /\ Fetching(r) \/ r.pc = "apply" => r.nWrites = 0
    /\ r.pc = "finalize" => r.nWrites = 0 /\ Len(r.changes) > 0
    /\ r.pc = "writeError" => r.nWrites = (IF r.lastErr = "db" THEN 1 ELSE 0)
    /\ r.pc = "schedule" => r.nWrites = (IF r.lastErr = "db" THEN 2 ELSE 1)
    /\ r.pc = "done" =>
         /\ r.outcome \in {"bad_request", "dropped", "no_changes"} => r.nWrites = 0
         /\ r.outcome = "finalized" => r.nWrites = 1
         /\ r.outcome = "rejected" => r.nWrites \in {1, 2}
         /\ r.outcome \in {"scheduled", "schedule_failed"} => r.nWrites \in {2, 3}

C5_Witness ==
  \E a, b \in Slots :
    /\ run[a].pc = "done" /\ run[a].outcome = "no_changes" /\ run[a].nWrites = 0
    /\ run[b].pc = "done" /\ run[b].outcome = "scheduled" /\ run[b].nWrites = 2

\* C6 (as claimed): no run ends with its promise rejected
C6_NothingEscapesAsClaimed == \A s \in Slots : run[s].outcome # "rejected"

\* C7: a request with a user id is answered 200 before the run's first operation and the
\* answer stays 200 whatever the run does; a request without one is answered 400 and
\* starts no run
C7_AckBeforeRun ==
  /\ [](\A s \in Slots :
          LET r == run[s] IN
          r.pc # "idle" =>
            /\ r.trig.userId # NoUser => r.response = 200
            /\ r.trig.userId = NoUser =>
                 /\ r.response = 400 /\ r.pc = "done" /\ r.outcome = "bad_request"
                 /\ r.tries = 0 /\ r.nWrites = 0)
  /\ [][\A s \in Slots : Running(run[s]) => run'[s].response = run[s].response]_vars

C7_Witness ==
  \E a, b \in Slots :
    /\ run[a].outcome = "rejected" /\ run[a].response = 200
    /\ run[b].outcome = "bad_request" /\ run[b].response = 400

\* C8: one fetch starts at most 3 attempts; it hands back the items of the attempt that
\* succeeded, or rethrows the error of the third failed attempt; every step of the fetch
\* loop either leaves the loop or uses up the remaining attempts, and every run settles
FetchRank(r) ==
  (maxRetries - r.attempt) * 4 +
    (CASE r.pc = "auth" -> 3 [] r.pc = "list" -> 2 [] r.pc = "storeToken" -> 1
       [] r.pc = "clearToken" -> 4 [] OTHER -> 0)
C8_BoundedFetch ==
  /\ [](\A s \in Slots :
          LET r == run[s] IN
          /\ r.tries <= maxRetries /\ r.attempt <= maxRetries
          /\ Fetching(r) => r.tries = r.attempt + (IF r.pc = "clearToken" THEN 0 ELSE 1)
          /\ r.pc \in {"list", "storeToken"} => r.attempt < maxRetries
          /\ r.pc \in {"apply", "finalize"} =>
               [i \in 1..Len(r.changes) |-> r.changes[i].event] = r.respItems
          /\ r.pc = "writeError" /\ r.lastErr \in FetchErrors =>
               r.attempt = maxRetries /\ r.tries = maxRetries)
  /\ [][\A s \in Slots :
          Fetching(run[s]) /\ run'[s] # run[s] /\ Fetching(run'[s]) =>
            FetchRank(run'[s]) < FetchRank(run[s])]_vars
  /\ \A s \in Slots : Running(run[s]) ~> run[s].pc = "done"

C8_Witness ==
  \E s \in Slots :
    run[s].pc = "writeError" /\ run[s].lastErr = "transient" /\ run[s].tries = maxRetries

\* C9 (as claimed): a cursor rejection is never what a fetch throws to doProcessWebhook
C9_InvalidCursorNotSurfacedAsClaimed ==
  \A s \in Slots : ~(RunLevelFailure(run[s]) /\ run[s].lastErr = "gone")

\* C10 (as claimed): no request carries a cursor the provider has already rejected for
\* that user and calendar
C10_RejectedCursorNeverSentAsClaimed ==
  [][\A s \in Slots :
       run[s].pc = "auth" /\ run'[s].pc = "list" =>
         <<UserOf(s), CalOf(run[s]), run'[s].lastSyncToken>> \notin rejected]_vars

\* C11 (as claimed): once a cursor is stored for a (user, calendar), the next request of a
\* fetch for that (user, calendar) carries exactly that cursor
C11_NextFetchSendsStoredAsClaimed ==
  [][\A s \in Slots :
       /\ run[s].pc = "auth" /\ run'[s].pc = "list"
       /\ syncToken[<<UserOf(s), CalOf(run[s])>>] # NoToken
       => run'[s].lastSyncToken = syncToken[<<UserOf(s), CalOf(run[s])>>]]_vars

\* C11 (amended): the request of a fetch carries the cursor that is in the store when the
\* attempt reads it, or no cursor at all when that read fails; it never carries another one
C11_RequestCarriesStoredOrNone ==
  [][\A s \in Slots :
       run[s].pc = "auth" /\ run'[s].pc = "list" =>
         run'[s].lastSyncToken \in {syncToken[<<UserOf(s), CalOf(run[s])>>], NoToken}]_vars

C11_Witness ==
  \E a, b \in Slots :
    /\ run[a].outcome \in {"no_changes", "finalized"}
    /\ UserOf(a) = UserOf(b) /\ CalOf(run[a]) = CalOf(run[b])
    /\ run[b].pc = "list" /\ run[b].lastSyncToken > 0
    /\ run[b].lastSyncToken = syncToken[<<UserOf(b), CalOf(run[b])>>]

\* C12 (as claimed): when getAuthenticatedClient yields no client the fetch fails at once:
\* no further attempt, no backoff sleep, and the run goes to the failure path
C12_AuthFailureNotRetriedAsClaimed ==
  [][\A s \in Slots :
       run[s].pc = "auth" /\ run'[s].attempt = run[s].attempt + 1 =>
         /\ run'[s].pc = "writeError"
         /\ run'[s].tries = run[s].tries
         /\ run'[s].sleeps <= run[s].sleeps]_vars

\* C13: a fetch whose failed attempts were all non-cursor failures has slept once per failed
\* attempt, so the third attempt follows exactly 2 backoff sleeps; it returns the items of
\* the attempt that succeeded; a failed attempt writes nothing to the stored cursor, and the
\* only cursor write is the fresh cursor of the successful attempt
C13_TwoTransientThenSuccess ==
  /\ [](\A s \in Slots :
          LET r == run[s] IN
          Fetching(r) /\ r.pc # "clearToken" /\ r.cleared = 0 =>
            r.sleeps = r.attempt /\ (r.tries = maxRetries => r.sleeps = 2))
  /\ [][\A s \in Slots :
          LET r == run[s] IN
          /\ r.pc \in {"auth", "list"} /\ run'[s].attempt = r.attempt + 1
               /\ run'[s].pc # "clearToken"
               => syncToken' = syncToken
          /\ r.pc = "storeToken" /\ run'[s] # r =>
               /\ syncToken' \in {syncToken,
                                   [syncToken EXCEPT ![<<r.trig.userId, CalOf(r)>>] = r.fresh]}
               /\ run'[s].pc = "apply" => run'[s].changes = Changes(r.respItems)
          /\ r.pc = "list" /\ run'[s].pc = "apply" =>
               syncToken' = syncToken /\ run'[s].changes = Changes(run'[s].respItems)]_vars

C13_Witness ==
  \E s \in Slots :
    /\ run[s].pc = "storeToken" /\ run[s].tries = maxRetries
    /\ run[s].sleeps = 2 /\ run[s].cleared = 0
    /\ Len(run[s].respItems) = MaxChanges /\ run[s].fresh # NoToken
    /\ syncToken[<<UserOf(s), CalOf(run[s])>>] \in StoredAtStart

\* C14: in a run with N fetched changes every change gets exactly one application attempt,
\* in the order of the response, whatever the outcome of the applications before it; a
\* failed application only keeps the success count where it was: the loop goes on, and the
\* run goes to its final status write, never to the failure path
C14_EveryChangeAppliedInOrder ==
  /\ [](\A s \in Slots :
          LET r == run[s] IN
          r.pc \in {"apply", "finalize"} =>
            /\ r.idx <= Len(r.changes) /\ r.successCount <= r.idx
            /\ r.applied = SubSeq(r.changes, 1, r.idx)
            /\ r.pc = "apply" => r.idx < Len(r.changes)
            /\ r.pc = "finalize" => r.applied = r.changes)
  /\ [][\A s \in Slots :
          LET r == run[s] IN
          r.pc = "apply" /\ run'[s] # r =>
            /\ run'[s].pc \in {"apply", "finalize"}
            /\ run'[s].changes = r.changes
            /\ run'[s].applied = Append(r.applied, r.changes[r.idx + 1])
            /\ run'[s].successCount \in {r.successCount, r.successCount + 1}]_vars

C14_Witness ==
  \E s \in Slots :
    /\ run[s].pc = "finalize" /\ Len(run[s].changes) = MaxBatch
    /\ run[s].successCount = 0 /\ run[s].applied = run[s].changes
    /\ run[s].changes[1].changeType # run[s].changes[MaxBatch].changeType

\* the change a handler is about to apply, and the vault entry it addresses
NextChange(s) == run[s].changes[run[s].idx + 1]
VaultKey(s) == <<UserOf(s), NextChange(s).event.id>>

\* C15 (as claimed): applications whose sink calls all succeed keep at most one memory per
\* (user, event id) in the sink, so applying a change again leaves the sink as it was
C15_AtMostOneMemoryAsClaimed ==
  [][\A s \in Slots :
       /\ run[s].pc = "apply" /\ run'[s] # run[s]
       /\ vault[VaultKey(s)] <= 1
       /\ ApplyChange(s, AllOk)
       => vault'[VaultKey(s)] <= 1]_vars

\* C16 (as claimed): applying a Deleted change for an event id that has no memory in the
\* sink returns true and leaves the sink unchanged
C16_DeleteAbsentAsClaimed ==
  [][\A s \in Slots, calls \in SinkCalls :
       /\ run[s].pc = "apply" /\ run'[s] # run[s]
       /\ NextChange(s).changeType = "deleted" /\ vault[VaultKey(s)] = 0
       /\ ApplyChange(s, calls)
       => vault' = vault /\ run'[s].successCount = run[s].successCount + 1]_vars

\* C16 (amended): applying a Deleted change for an event id that has no memory in the sink
\* leaves the sink unchanged; it returns true when the search request is answered ok and
\* false when the search request fails
C16_DeleteAbsentWhenSearchAnswers ==
  [][\A s \in Slots, calls \in SinkCalls :
       /\ run[s].pc = "apply" /\ run'[s] # run[s]
       /\ NextChange(s).changeType = "deleted" /\ vault[VaultKey(s)] = 0
       /\ ApplyChange(s, calls)
       => /\ vault' = vault
          /\ calls.search => run'[s].successCount = run[s].successCount + 1
          /\ ~calls.search => run'[s].successCount = run[s].successCount]_vars

C16_Witness ==
  \E s \in Slots :
    /\ delivered = 1 /\ run[s].pc = "finalize"
    /\ Len(run[s].changes) = 1 /\ run[s].changes[1].changeType = "deleted"
    /\ run[s].successCount = 1
    /\ vault[<<UserOf(s), run[s].changes[1].event.id>>] = 0

\* C17: every fetched event gets a change type, and it is Deleted when the status is
\* cancelled whatever the timestamps, otherwise Created when created equals updated (also
\* when both are absent), and Updated in every other case
C17_Classification ==
  \A s \in Slots :
    \A i \in 1..Len(run[s].changes) :
      LET c == run[s].changes[i] IN
      /\ c.changeType \in {"created", "updated", "deleted"}
      /\ c.event.status = "cancelled" => c.changeType = "deleted"
      /\ c.event.status # "cancelled" /\ c.event.created = c.event.updated =>
           c.changeType = "created"
      /\ c.event.status # "cancelled" /\ c.event.created # c.event.updated =>
           c.changeType = "updated"

C17_Witness ==
  \E s \in Slots :
    /\ Len(run[s].changes) = 2
    /\ run[s].changes[1].event.status = "cancelled"
    /\ run[s].changes[1].event.created = run[s].changes[1].event.updated
    /\ run[s].changes[1].changeType = "deleted"
    /\ run[s].changes[2].event.created = "none" /\ run[s].changes[2].event.updated = "none"
    /\ run[s].changes[2].changeType = "created"

\* C18 (as claimed): a run whose fetch returns zero changes settles as a success having
\* made no connection-status write and no sink call, without entering the failure path
C18_ZeroChangesNoWriteAsClaimed ==
  [][\A s \in Slots :
       Fetching(run[s]) /\ run'[s].pc = "done" =>
         /\ run'[s].outcome = "no_changes" /\ run'[s].nWrites = 0
         /\ conn' = conn /\ vault' = vault
         /\ run[s].authWrites = 0]_vars

\* C19 (as claimed): the fresh cursor of a successful response is in the store once the
\* write has been made
C19_FreshCursorStoredAsClaimed ==
  [][\A s \in Slots :
       run[s].pc = "storeToken" /\ run'[s] # run[s] =>
         syncToken'[<<UserOf(s), CalOf(run[s])>>] = run[s].fresh]_vars

\* C19 (amended): a successful response that carries a fresh cursor makes the fetch issue
\* the store write of that cursor for the (user, calendar), also when the response holds
\* zero changes; the write leaves the store holding that cursor, or unchanged when the
\* store refuses it, and the fetch returns the changes of the response in both cases
C19_FreshCursorWriteIssued ==
  [][\A s \in Slots :
       LET r == run[s]
           k == <<UserOf(s), CalOf(r)>>
       IN
       /\ r.pc = "list" /\ run'[s] # r /\ nextTok' # nextTok =>
            run'[s].pc = "storeToken" /\ run'[s].fresh = nextTok
       /\ r.pc = "storeToken" /\ run'[s] # r =>
            /\ r.fresh # NoToken
            /\ syncToken' \in {syncToken, [syncToken EXCEPT ![k] = r.fresh]}
            /\ IF r.respItems = <<>>
                 THEN run'[s].outcome = "no_changes"
                 ELSE run'[s].pc = "apply" /\ run'[s].changes = Changes(r.respItems)]_vars

C19_Witness ==
  \E s \in Slots :
    /\ run[s].outcome = "no_changes"
    /\ syncToken[<<UserOf(s), CalOf(run[s])>>] = nextTok - 1
    /\ nextTok - 1 \notin StoredAtStart

\* C20 (as claimed): the connection status of every user is always one of the six
\* documented values
DocumentedStatuses ==
  {"active", "partial_sync", "error", "scheduled_full_sync", "auth_error", "permission_error"}
C20_StatusInDocumentedSetAsClaimed ==
  \A u \in Users : conn[u].sync_status \in DocumentedStatuses

\* C21 (as claimed): the fetch path (fetchIncrementalChanges and the auth lookup it calls)
\* never writes the connection status
C21_FetchPathNeverWritesStatusAsClaimed ==
  [][\A s \in Slots :
       Fetching(run[s]) /\ run'[s] # run[s] => conn' = conn]_vars

\* performFullSync is inside the loop over the calendars
FsInLoop(f) == f.pc \in {"fsList", "fsApply", "fsRefresh", "fsStore"}

\* C22: in a full sync a failure on one calendar does not abort the others: inside the
\* loop the calendars attempted so far are exactly the first ci calendars of the
\* enumeration, in order, and once the loop is left every enumerated calendar has been
\* attempted, whatever failed before
C22_EveryCalendarAttemptedInOrder ==
  /\ FsInLoop(fs) => fs.attempted = SubSeq(fs.calendars, 1, fs.ci)
  /\ fs.pc \in {"fsFinal", "fsError"} => fs.attempted = fs.calendars

\* the first of two calendars failed and the second one was attempted all the same
C22_Witness ==
  /\ fs.pc = "fsFinal"
  /\ Len(fs.calendars) = 2
  /\ fs.failed # <<>>
  /\ fs.failed[1] = fs.calendars[1]
  /\ fs.attempted = fs.calendars

\* C23 (as claimed): a full sync that returns has returned true after writing exactly the
\* status active, or false after writing exactly the status error
C23_ResultAndStatusAsClaimed ==
  fs.pc = "done" =>
    \/ fs.result = "true" /\ fs.wrote = <<"active">>
    \/ fs.result = "false" /\ fs.wrote = <<"error">>

\* the events of the current calendar applied so far are the first events received, in
\* order, each as a created change
FsAppliedAsCreated(f) ==
  /\ Len(f.applied) <= Len(f.received)
  /\ \A i \in 1..Len(f.applied) :
       f.applied[i] = [event |-> f.received[i], changeType |-> "created"]

\* C24 (as claimed): the fresh cursor the refresh call returned is in the store for that
\* (user, calendar) once the store step has been taken
C24_FreshCursorPersistedAsClaimed ==
  [][fs.pc = "fsStore" /\ fs' # fs =>
       syncToken'[<<fs.userId, FsCal(fs)>>] = fs.fresh]_vars

C24_Paging ==
  /\ FsInLoop(fs) => FsAppliedAsCreated(fs)
  /\ fs.pc \in {"fsRefresh", "fsStore"} =>
       /\ fs.pageToken = 0
       /\ Len(fs.applied) = Len(fs.received)
       /\ fs.refreshCalls = (IF fs.pc = "fsStore" THEN 1 ELSE 0)

C24_StoreStep ==
  /\ fs.pc = "fsRefresh" /\ fs' # fs => fs'.pc # "fsRefresh"
  /\ fs.pc = "fsStore" /\ fs' # fs =>
       /\ fs'.pc # "fsRefresh"
       /\ \A k \in DOMAIN syncToken :
            k # <<fs.userId, FsCal(fs)>> => syncToken'[k] = syncToken[k]
       /\ syncToken'[<<fs.userId, FsCal(fs)>>] \in
            {fs.fresh, syncToken[<<fs.userId, FsCal(fs)>>]}
       /\ FsUpdateSyncToken(TRUE) => syncToken'[<<fs.userId, FsCal(fs)>>] = fs.fresh

\* C24 (amended): while the list calls of a calendar succeed, the full sync pages until no
\* page token is returned, applies every event of every page as created, then makes
\* exactly one refresh list call and issues the store write of the cursor it returned:
\* the store holds that cursor when it accepted the write and is unchanged otherwise
C24_PagedCreatedThenOneRefresh == []C24_Paging /\ [][C24_StoreStep]_vars

\* two pages, a cancelled event among them, all applied as created, one refresh call
C24_Witness ==
  /\ fs.pc = "fsStore"
  /\ fs.pagesListed = 2
  /\ Len(fs.applied) = 2
  /\ \E i \in 1..2 : fs.applied[i].event.status = "cancelled"
  /\ fs.refreshCalls = 1

\* C25 (as claimed): no two runs apply changes of the same user at the same time
C25_OneApplicationPerUserAsClaimed ==
  \A s1, s2 \in Slots :
    s1 # s2 /\ run[s1].pc = "apply" /\ run[s2].pc = "apply" => UserOf(s1) # UserOf(s2)

\* the cursor the store holds for the calendar of the run in slot s
StoredCursor(s) == syncToken[<<run[s].trig.userId, CalOf(run[s])>>]

\* C26: a failed read of the cursor is not raised: the attempt goes on to the list call
\* without a cursor (the initial-window branch), it is not counted as a failed attempt,
\* nothing is slept and neither the store nor the connection status changes
C26_ReadFailureIsNoCursor ==
  [][\A s \in Slots :
       run[s].pc = "auth" /\ run'[s] = ReadCursor(run[s], StoredCursor(s), FALSE) =>
         /\ run'[s].pc = "list"
         /\ run'[s].lastSyncToken = NoToken
         /\ run'[s].attempt = run[s].attempt
         /\ run'[s].tries = run[s].tries
         /\ run'[s].sleeps = run[s].sleeps
         /\ run'[s].lastErr = run[s].lastErr
         /\ syncToken' = syncToken
         /\ conn' = conn]_vars

\* the store holds a cursor, the read failed, and the first attempt is at its list call
\* without a cursor
C26_Witness ==
  /\ run["h1"].pc = "list"
  /\ StoredCursor("h1") # NoToken
  /\ run["h1"].lastSyncToken = NoToken
  /\ run["h1"].attempt = 0
  /\ run["h1"].tries = 1

\* C27 (as claimed): the calendar id of a run is always derived, it is primary when the
\* trigger has no locator, and the derivation never fails the fetch
C27_CalendarIdNeverFailsAsClaimed ==
  \A s \in Slots :
    Running(run[s]) =>
      /\ CalOf(run[s]) \notin Thrown
      /\ run[s].trig.resourceUri = NoResourceUri => CalOf(run[s]) = "primary"
      /\ run[s].lastErr # "locator"

\* C28 (as claimed): a trigger is dropped only when a run with the identical
\* (userId, channelId) pair is outstanding
C28_DroppedOnlyForSamePairAsClaimed ==
  [][\A s \in Slots, t \in KeyTriggers :
       /\ ~Running(run[s])
       /\ run'[s].outcome = "dropped"
       /\ HandleCalendarWebhook(s, t)
       => \E x \in Slots :
            /\ Running(run[x])
            /\ run[x].trig.userId = t.userId
            /\ run[x].trig.channelId = t.channelId]_vars

\* C29 (as claimed): within a run the cursor store and the connection status are written
\* only at the end of the run, after every fetched change has had its application attempt
C29_WritesOnlyAtEndOfRunAsClaimed ==
  [][syncToken' # syncToken \/ conn' # conn =>
       run["h1"].pc \in {"finalize", "writeError", "schedule"}]_vars

\* C30: inside one fetch a failed attempt with a non-cursor error that is followed by
\* another attempt is separated from it by one sleep of 2^attempt seconds, attempt being
\* the number of failed attempts so far; the retry after a rejected cursor is not preceded
\* by a sleep; one attempt makes one list call, so a fetch makes at most 3 of them, and it
\* sleeps at most 2 + 4 + 8 seconds in total
C30_Steps ==
  \A s \in Slots :
    /\ Fetching(run[s]) /\ run'[s].sleeps = run[s].sleeps + 1 =>
         /\ run[s].pc # "clearToken"
         /\ run'[s].attempt \in 1..(maxRetries - 1)
         /\ run'[s].slept = run[s].slept + (2 ^ run'[s].attempt) * 1000
    /\ run[s].pc = "clearToken" /\ run'[s].pc = "auth" =>
         run'[s].slept = run[s].slept /\ run'[s].sleeps = run[s].sleeps
    /\ run[s].pc \in {"auth", "list"} /\ run'[s].pc = "auth" /\ run'[s] # run[s] =>
         run'[s].sleeps = run[s].sleeps + 1
    /\ run[s].pc = "list" /\ run'[s] # run[s] => run'[s].pc # "list"

C30_Totals ==
  \A s \in Slots :
    Fetching(run[s]) =>
      /\ run[s].slept <= (2 + 4 + 8) * 1000
      /\ run[s].tries <= 3

C30_BackoffBetweenAttempts == []C30_Totals /\ [][C30_Steps]_vars

\* the third attempt of a fetch, after a sleep of 2 and a sleep of 4 seconds
C30_Witness ==
  /\ run["h1"].pc = "list"
  /\ run["h1"].tries = 3
  /\ run["h1"].sleeps = 2
  /\ run["h1"].slept = 6000

\* the list call of slot s has returned the page items without a fresh cursor
ListedWithoutCursor(s, items) ==
  /\ nextTok' = nextTok
  /\ Returned(s, [run[s] EXCEPT !.respItems = items, !.lastSyncToken = NoToken], items)

\* C31 (as claimed): a response without a fresh cursor leaves the stored cursor as it was,
\* and the first request of the next fetch for that (user, calendar) carries that cursor
C31_SameCursorSentAgainAsClaimed ==
  [][\A s \in Slots :
       /\ \A items \in SmallPages :
            run[s].pc = "list" /\ ListedWithoutCursor(s, items) => syncToken' = syncToken
       /\ run[s].pc = "auth" /\ run[s].tries = 1 /\ run'[s].pc = "list"
            /\ StoredCursor(s) # NoToken
            => run'[s].lastSyncToken = StoredCursor(s)]_vars

C31_Steps ==
  \A s \in Slots :
    /\ run[s].pc = "list" /\ run'[s] # run[s] => run'[s].pc # "list"
    /\ \A items \in SmallPages :
         run[s].pc = "list" /\ ListedWithoutCursor(s, items) =>
           /\ syncToken' = syncToken
           /\ run[s].lastSyncToken # NoToken =>
                syncToken'[<<UserOf(s), CalOf(run[s])>>] = run[s].lastSyncToken
           /\ items # <<>> =>
                /\ run'[s].pc = "apply"
                /\ Len(run'[s].changes) = Len(items)
                /\ \A i \in 1..Len(items) : run'[s].changes[i].event = items[i]
    /\ run[s].pc = "auth" /\ run'[s] = ReadCursor(run[s], StoredCursor(s), TRUE) =>
         run'[s].lastSyncToken = StoredCursor(s)
    /\ run[s].pc = "auth" /\ run'[s].pc = "list" =>
         run'[s].lastSyncToken \in {StoredCursor(s), NoToken}

\* C31 (amended): an attempt makes one list call and follows no page token; a response
\* without a fresh cursor still hands its changes to the application loop and leaves the
\* stored cursor as it was, which is the cursor the request carried; the next fetch sends
\* that cursor again when its read of the store succeeds and no cursor when it fails
C31_OnePageCursorKept == [][C31_Steps]_vars

\* the first run applied a page that came without a fresh cursor, and the second run's
\* request carries the cursor that is still in the store
C31_Witness ==
  /\ run["h1"].pc = "list"
  /\ run["h1"].trig.userId = "u1"
  /\ delivered = 2
  /\ nextTok = 1
  /\ vault[<<"u1", "e1">>] = 1
  /\ run["h1"].lastSyncToken = 0
  /\ StoredCursor("h1") = 0

\* C32 (as claimed): a channel that expired is re-registered or stays enumerable by
\* getExpiredWebhooks: a row loses its webhook columns only between the unregistration and
\* the re-registration of its user inside a refresh cycle
C32_ExpiredStaysEnumerableAsClaimed ==
  \A u \in Users :
    webhooks[u] = "none" => refresh.pc = "register" /\ RefreshUser = u

\* C33 (as claimed): the stored cursor is not advanced past a change that has not been
\* applied successfully: when the applications of the first run have ended and one of
\* them failed, the store still holds the cursor it held before the run
C33_CursorNotPastFailedChangeAsClaimed ==
  \A s \in Slots :
    /\ delivered = 1
    /\ run[s].pc = "finalize"
    /\ run[s].successCount < Len(run[s].changes)
    => syncToken[<<UserOf(s), CalOf(run[s])>>] \in StoredAtStart

\* C34 (as claimed): the stored cursor of a (user, calendar) never regresses: a write that
\* replaces it by another cursor replaces it by one the provider handed out later
C34_CursorNeverRegressesAsClaimed ==
  [][\A k \in DOMAIN syncToken :
       syncToken'[k] # syncToken[k] /\ syncToken'[k] # NoToken =>
         syncToken'[k] > syncToken[k]]_vars

\* C35 (as claimed): a user who is reported as connected is still reported as connected
\* after a run whose applications all succeeded and whose status write was made
C35_ConnectedAfterSuccessfulRunAsClaimed ==
  [][\A s \in Slots :
       /\ run[s].pc = "finalize"
       /\ run[s].successCount = Len(run[s].changes)
       /\ run'[s].outcome = "finalized"
       /\ isUserCalendarConnected(conn[UserOf(s)])
       => isUserCalendarConnected(conn'[UserOf(s)])]_vars

\* C36 (as claimed): after a deleted change for an event id has been applied with result
\* true the sink holds no memory for that (user, event id)
C36_NoMemoryAfterDeleteAsClaimed ==
  [][\A s \in Slots, calls \in SinkCalls :
       /\ run[s].pc = "apply" /\ run'[s] # run[s]
       /\ NextChange(s).changeType = "deleted"
       /\ processCalendarChange(vault[VaultKey(s)], "deleted", calls).ok
       /\ ApplyChange(s, calls)
       => vault'[VaultKey(s)] = 0]_vars
====
